---- MODULE Spec2Model ----
(***************************************************************************)
(* The risk ledger (src/risk_manager.py, class RiskManager) and the bot    *)
(* loop that drives it (src/bot.py, class JudgmentalPredictionBot).        *)
(*                                                                         *)
(* Money is modelled in whole currency units.  max_portfolio_risk is a     *)
(* percentage (0.3 is 30), so `ratio > max_portfolio_risk` is compared by  *)
(* cross-multiplication and `balance * max_portfolio_risk` is              *)
(* balance * 30 \div 100, which is exact for the balances of Balances      *)
(* (all multiples of 10).  The ledger's floating-point rounding is not    *)
(* modelled.                                                               *)
(***************************************************************************)
EXTENDS Integers, Sequences, FiniteSets, TLC

VARIABLES
    open_positions,     \* RiskManager.open_positions: market id -> position dict
    max_markets_open,   \* RiskManager.max_markets_open, set by the constructor
    call,               \* the latest ledger call of a direct client and what it returned
    bypassed,           \* history: some record_position was not preceded by its gate
    running,            \* JudgmentalPredictionBot.running
    entry,              \* which entry point was awaited: "none", "run", "run_once"
    bot_pc,             \* where the bot's coroutine is suspended
    targets,            \* the part of target_markets the for loop has not reached yet
    balance,            \* the local `balance` of process_markets
    tasks,              \* process_market calls suspended at place_bet: market id -> locals
    trades,             \* PerformanceTracker.trades (no history file at start)
    starting_balance,   \* PerformanceTracker.starting_balance
    cycles,             \* iterations of run()'s while loop started so far
    pending_positions,  \* MarketResolutionTracker.pending_positions
    resolved_markets    \* MarketResolutionTracker.resolved_markets

vars == <<open_positions, max_markets_open, call, bypassed, running, entry,
          bot_pc, targets, balance, tasks, trades, starting_balance, cycles,
          pending_positions, resolved_markets>>

client_vars == <<call, bypassed>>

bot_vars == <<running, entry, bot_pc, targets, balance, tasks, trades,
              starting_balance, cycles>>

tracker_vars == <<pending_positions, resolved_markets>>

---------------------------------------------------------------------------
(* Configuration (src/config.py defaults) and the inputs that are drawn.   *)

max_position_size == 100

max_portfolio_risk == 30

MaxMarketsOpenChoices == {1, 2}

Markets == {"m1", "m2", "m3"}

\* amounts a direct client proposes or records: negative (misuse), within
\* the position limit, and above it
Amounts == {-10, 80, 90, 110}

\* balances: a failed fetch or empty account (0), and two funded accounts
Balances == {0, 500, 1000}

Sides == {"YES", "NO"}

\* side tokens a direct client may pass, valid or not
SideTokens == Sides \cup {"MAYBE"}

\* market probabilities in percent
Probs == {35, 50}

\* the (amount, side, market_prob) triples a direct client records: two
\* well-formed ones, one above the position limit, a negative amount and
\* an invalid side token
PositionInputs ==
    { <<80, "YES", 35>>, <<90, "NO", 50>>, <<110, "NO", 35>>,
      <<-10, "YES", 35>>, <<80, "MAYBE", 50>> }

\* amounts the strategy recommends; 0 stands for an amount under the 1.0
\* minimum bet
BetAmounts == {0, 80, 90, 110}

\* the target creator's markets as one fetch returns them
FetchedLists ==
    { << >>, <<"m1">>, <<"m1", "m2">>, <<"m2", "m1">>, <<"m1", "m2", "m3">>,
      <<"m3", "m2", "m1">> }

\* run()'s while loop is followed for this many iterations
MaxCycles == 2

None == "None"

Min(a, b) == IF a < b THEN a ELSE b

Max(a, b) == IF a > b THEN a ELSE b

---------------------------------------------------------------------------
(* RiskManager: the pure parts.                                            *)

RECURSIVE SumAmounts(_, _)
SumAmounts(positions, S) ==
    IF S = {} THEN 0
    ELSE LET m == CHOOSE x \in S : TRUE
         IN  positions[m].amount + SumAmounts(positions, S \ {m})

\* sum(pos.get("amount", 0) for pos in self.open_positions.values())
total_at_risk(positions) == SumAmounts(positions, DOMAIN positions)

Position(amount, side, market_prob) ==
    [amount |-> amount, side |-> side, market_prob |-> market_prob,
     timestamp |-> None]

EmptyLedger == [m \in {} |-> Position(0, "NO", 0)]

NoTasks == [m \in {} |-> None]

\* self.starting_balance = None
NoBalance == [known |-> FALSE, value |-> 0]

\* can_trade without `total_at_risk += proposed_bet`
can_trade_NoAdd(positions, market_id, proposed_bet, current_balance) ==
    IF market_id \in DOMAIN positions
    THEN [allowed |-> FALSE, reason |-> "Already have position"]
    ELSE IF proposed_bet > max_position_size
    THEN [allowed |-> FALSE, reason |-> "Exceeds max position size"]
    ELSE IF /\ current_balance > 0
            /\ total_at_risk(positions) * 100 > max_portfolio_risk * current_balance
    THEN [allowed |-> FALSE, reason |-> "Exceeds portfolio risk limit"]
    ELSE IF Cardinality(DOMAIN positions) >= max_markets_open
    THEN [allowed |-> FALSE, reason |-> "At max open positions"]
    ELSE [allowed |-> TRUE, reason |-> None]

\* can_trade with `>` for `>=` in the open-position count check
can_trade_OffByOne(positions, market_id, proposed_bet, current_balance) ==
    IF market_id \in DOMAIN positions
    THEN [allowed |-> FALSE, reason |-> "Already have position"]
    ELSE IF proposed_bet > max_position_size
    THEN [allowed |-> FALSE, reason |-> "Exceeds max position size"]
    ELSE IF /\ current_balance > 0
            /\ (total_at_risk(positions) + proposed_bet) * 100
                   > max_portfolio_risk * current_balance
    THEN [allowed |-> FALSE, reason |-> "Exceeds portfolio risk limit"]
    ELSE IF Cardinality(DOMAIN positions) > max_markets_open
    THEN [allowed |-> FALSE, reason |-> "At max open positions"]
    ELSE [allowed |-> TRUE, reason |-> None]

\* can_trade without the position size check
can_trade_NoSizeCheck(positions, market_id, proposed_bet, current_balance) ==
    IF market_id \in DOMAIN positions
    THEN [allowed |-> FALSE, reason |-> "Already have position"]
    ELSE IF /\ current_balance > 0
            /\ (total_at_risk(positions) + proposed_bet) * 100
                   > max_portfolio_risk * current_balance
    THEN [allowed |-> FALSE, reason |-> "Exceeds portfolio risk limit"]
    ELSE IF Cardinality(DOMAIN positions) >= max_markets_open
    THEN [allowed |-> FALSE, reason |-> "At max open positions"]
    ELSE [allowed |-> TRUE, reason |-> None]

\* can_trade without the `if current_balance > 0` guard
can_trade_NoBalanceGuard(positions, market_id, proposed_bet, current_balance) ==
    IF market_id \in DOMAIN positions
    THEN [allowed |-> FALSE, reason |-> "Already have position"]
    ELSE IF proposed_bet > max_position_size
    THEN [allowed |-> FALSE, reason |-> "Exceeds max position size"]
    ELSE IF (total_at_risk(positions) + proposed_bet) * 100
                > max_portfolio_risk * current_balance
    THEN [allowed |-> FALSE, reason |-> "Exceeds portfolio risk limit"]
    ELSE IF Cardinality(DOMAIN positions) >= max_markets_open
    THEN [allowed |-> FALSE, reason |-> "At max open positions"]
    ELSE [allowed |-> TRUE, reason |-> None]

can_trade(positions, market_id, proposed_bet, current_balance) ==
    IF market_id \in DOMAIN positions
    THEN [allowed |-> FALSE, reason |-> "Already have position"]
    ELSE IF proposed_bet > max_position_size
    THEN [allowed |-> FALSE, reason |-> "Exceeds max position size"]
    ELSE IF /\ current_balance > 0
            /\ (total_at_risk(positions) + proposed_bet) * 100
                   > max_portfolio_risk * current_balance
    THEN [allowed |-> FALSE, reason |-> "Exceeds portfolio risk limit"]
    ELSE IF Cardinality(DOMAIN positions) >= max_markets_open
    THEN [allowed |-> FALSE, reason |-> "At max open positions"]
    ELSE [allowed |-> TRUE, reason |-> None]

\* adjust_bet_size capping at the whole budget, open positions not subtracted
adjust_bet_size_NoSubtract(positions, proposed_bet, current_balance, market_id) ==
    LET capped   == Min(proposed_bet, max_position_size)
        max_total_risk == (current_balance * max_portfolio_risk) \div 100
        adjusted == IF current_balance > 0 THEN Min(capped, max_total_risk)
                    ELSE capped
    IN  Max(0, adjusted)

adjust_bet_size(positions, proposed_bet, current_balance, market_id) ==
    LET capped   == Min(proposed_bet, max_position_size)
        max_total_risk == (current_balance * max_portfolio_risk) \div 100
        max_bet  == max_total_risk - total_at_risk(positions)
        adjusted == IF current_balance > 0 THEN Min(capped, max_bet) ELSE capped
    IN  Max(0, adjusted)

\* record_position keeping an entry that is already there (setdefault)
record_position_KeepFirst(positions, market_id, amount, side, market_prob) ==
    [m \in DOMAIN positions \cup {market_id} |->
        IF m \in DOMAIN positions THEN positions[m]
        ELSE Position(amount, side, market_prob)]

\* the dict after self.open_positions[market_id] = {...}
record_position(positions, market_id, amount, side, market_prob) ==
    [m \in DOMAIN positions \cup {market_id} |->
        IF m = market_id THEN Position(amount, side, market_prob)
        ELSE positions[m]]

\* remove_position dropping every entry when the market is open
remove_position_Clear(positions, market_id) ==
    IF market_id \in DOMAIN positions
    THEN [m \in {} |-> positions[m]]
    ELSE positions

\* the dict after `if market_id in self.open_positions: del ...`
remove_position(positions, market_id) ==
    IF market_id \in DOMAIN positions
    THEN [m \in DOMAIN positions \ {market_id} |-> positions[m]]
    ELSE positions

get_portfolio_summary(positions) ==
    [num_positions |-> Cardinality(DOMAIN positions),
     total_at_risk |-> total_at_risk(positions),
     positions     |-> positions]

---------------------------------------------------------------------------
(* A direct client of the ledger: one action per method call.  `call`      *)
(* keeps the arguments and the outcome; `raised` is whether the method     *)
(* raised (no method of RiskManager has a raise statement).                *)

NoCall ==
    [op |-> "none", market_id |-> None, amount |-> 0, balance |-> 0,
     side |-> None, market_prob |-> 0, allowed |-> FALSE, reason |-> None,
     result |-> 0, gated |-> FALSE, replaced |-> FALSE, raised |-> FALSE]

Call_can_trade(market_id, proposed_bet, current_balance) ==
    LET r == can_trade(open_positions, market_id, proposed_bet, current_balance)
    IN  /\ call' = [NoCall EXCEPT !.op = "can_trade", !.market_id = market_id,
                       !.amount = proposed_bet, !.balance = current_balance,
                       !.allowed = r.allowed, !.reason = r.reason]
        /\ UNCHANGED <<open_positions, max_markets_open, bypassed>>
        /\ UNCHANGED bot_vars
        /\ UNCHANGED tracker_vars

Call_adjust_bet_size(proposed_bet, current_balance, market_id) ==
    /\ call' = [NoCall EXCEPT !.op = "adjust_bet_size", !.market_id = market_id,
                   !.amount = proposed_bet, !.balance = current_balance,
                   !.result = adjust_bet_size(open_positions, proposed_bet,
                                              current_balance, market_id)]
    /\ UNCHANGED <<open_positions, max_markets_open, bypassed>>
    /\ UNCHANGED bot_vars
    /\ UNCHANGED tracker_vars

\* whether record_position(market_id, amount, ...) comes right after an
\* allowing can_trade for the same market and at least this amount, so
\* that the ledger is still the one the gate saw
PassedGate(market_id, amount) ==
    /\ call.op = "can_trade"
    /\ call.allowed
    /\ call.market_id = market_id
    /\ amount <= call.amount

\* call'.gated, call'.balance and call'.replaced are history: whether the
\* call passed the gate, the balance the gate was asked about, and whether
\* the market already had a position
Call_record_position(market_id, amount, side, market_prob) ==
    LET gated == PassedGate(market_id, amount)
    IN  /\ open_positions' = record_position(open_positions, market_id, amount,
                                             side, market_prob)
        /\ call' = [NoCall EXCEPT !.op = "record_position",
                       !.market_id = market_id, !.amount = amount,
                       !.side = side, !.market_prob = market_prob,
                       !.gated = gated,
                       !.replaced = (market_id \in DOMAIN open_positions),
                       !.balance = IF gated THEN call.balance ELSE 0]
        /\ bypassed' = (bypassed \/ ~gated)
        /\ UNCHANGED max_markets_open
        /\ UNCHANGED bot_vars
        /\ UNCHANGED tracker_vars

Call_remove_position(market_id) ==
    /\ open_positions' = remove_position(open_positions, market_id)
    /\ call' = [NoCall EXCEPT !.op = "remove_position", !.market_id = market_id]
    /\ UNCHANGED <<max_markets_open, bypassed>>
    /\ UNCHANGED bot_vars
    /\ UNCHANGED tracker_vars

Call_get_portfolio_summary ==
    /\ call' = [NoCall EXCEPT !.op = "get_portfolio_summary",
                   !.result = get_portfolio_summary(open_positions).total_at_risk]
    /\ UNCHANGED <<open_positions, max_markets_open, bypassed>>
    /\ UNCHANGED bot_vars
    /\ UNCHANGED tracker_vars

\* RiskManager.__init__ and JudgmentalPredictionBot.__init__
Init ==
    /\ open_positions = EmptyLedger
    /\ max_markets_open \in MaxMarketsOpenChoices
    /\ call = NoCall
    /\ bypassed = FALSE
    /\ running = FALSE
    /\ entry = "none"
    /\ bot_pc = "init"
    /\ targets = << >>
    /\ balance = 0
    /\ tasks = NoTasks
    /\ trades = << >>
    /\ starting_balance = NoBalance
    /\ cycles = 0
    /\ pending_positions = NoTasks
    /\ resolved_markets = NoTasks

\* every ledger method, called with any arguments in any order
LedgerNext ==
    \/ \E m \in Markets, a \in Amounts, b \in Balances : Call_can_trade(m, a, b)
    \/ \E m \in Markets, a \in Amounts, b \in Balances : Call_adjust_bet_size(a, b, m)
    \/ \E m \in Markets, x \in PositionInputs :
           Call_record_position(m, x[1], x[2], x[3])
    \/ \E m \in Markets : Call_remove_position(m)
    \/ Call_get_portfolio_summary

LedgerSpec == Init /\ [][LedgerNext]_vars

---------------------------------------------------------------------------
(* JudgmentalPredictionBot.  The coroutine runs without interruption from  *)
(* one await to the next; the awaits are get_markets, get_user_balance,    *)
(* the executor call inside place_bet, and asyncio.sleep.                  *)

\* what self.strategy.should_trade returns: a decline, or a side and an
\* amount; 0 stands for an amount under the 1.0 minimum bet
Recommendations ==
    {[should_trade |-> FALSE, bet_amount |-> 0, side |-> "NO"]} \cup
    [should_trade : {TRUE}, bet_amount : BetAmounts, side : Sides]

\* the loop starting process_market as a task it does not await
LoopAwaits_FireAndForget == TRUE

\* `await self.process_market(market, balance)`: the for loop goes on only
\* when the process_market call it awaits has returned
LoopAwaits == tasks = NoTasks

\* the for loop never looking at self.running
LoopBreaks_Never == FALSE

\* `if not self.running: break`
LoopBreaks == ~running

\* the locals of a process_market call suspended in place_bet
Task(gate, bet_amount, side, current_prob) ==
    [pc |-> "place_bet", can_trade |-> gate, bet_amount |-> bet_amount,
     side |-> side, current_prob |-> current_prob, success |-> FALSE]

\* `if not can_trade: return`
GateStops(gate) == ~gate.allowed

\* recording whatever place_bet returned
RecordsPosition_Always(task) == TRUE

\* `if success:`
RecordsPosition(task) == task.success

\* process_markets returns; run() prints the summary and sleeps, run_once()
\* returns to its caller
EndOfCycle ==
    /\ bot_pc' = IF entry = "run" THEN "sleep" ELSE "done"
    /\ targets' = << >>

run ==
    /\ bot_pc = "init"
    /\ entry' = "run"
    /\ running' = TRUE
    /\ cycles' = 1
    /\ bot_pc' = "get_markets"
    /\ UNCHANGED <<open_positions, max_markets_open, targets, balance, tasks, trades,
                   starting_balance>>
    /\ UNCHANGED client_vars
    /\ UNCHANGED tracker_vars

run_once ==
    /\ bot_pc = "init"
    /\ entry' = "run_once"
    /\ cycles' = 1
    /\ bot_pc' = "get_markets"
    /\ UNCHANGED <<open_positions, max_markets_open, running, targets, balance,
                   tasks, trades,
                   starting_balance>>
    /\ UNCHANGED client_vars
    /\ UNCHANGED tracker_vars

stop ==
    /\ running
    /\ running' = FALSE
    /\ UNCHANGED <<open_positions, max_markets_open, entry, bot_pc, targets,
                   balance, tasks, trades,
                   starting_balance, cycles>>
    /\ UNCHANGED client_vars
    /\ UNCHANGED tracker_vars

\* get_markets returns the target creator's markets; [] also when the
\* fetch raised
get_markets(fetched) ==
    /\ bot_pc = "get_markets"
    /\ IF fetched = << >>
       THEN EndOfCycle
       ELSE /\ targets' = fetched
            /\ bot_pc' = "get_balance"
    /\ UNCHANGED <<open_positions, max_markets_open, running, entry, balance,
                   tasks, trades,
                   starting_balance, cycles>>
    /\ UNCHANGED client_vars
    /\ UNCHANGED tracker_vars

\* get_user_balance returns, 0 also when the fetch raised or found no user,
\* and performance_tracker.update_balance(balance) keeps the first balance
\* (its current_balance is `balance`)
get_user_balance(b) ==
    /\ bot_pc = "get_balance"
    /\ balance' = b
    /\ starting_balance' = IF starting_balance.known THEN starting_balance
                           ELSE [known |-> TRUE, value |-> b]
    /\ bot_pc' = "for_loop"
    /\ UNCHANGED <<open_positions, max_markets_open, running, entry, targets,
                   tasks, trades, cycles>>
    /\ UNCHANGED client_vars
    /\ UNCHANGED tracker_vars

\* the for loop is exhausted, or `if not self.running: break`
for_loop_ends ==
    /\ bot_pc = "for_loop"
    /\ LoopAwaits
    /\ targets = << >> \/ LoopBreaks
    /\ EndOfCycle
    /\ UNCHANGED <<open_positions, max_markets_open, running, entry, balance,
                   tasks, trades,
                   starting_balance, cycles>>
    /\ UNCHANGED client_vars
    /\ UNCHANGED tracker_vars

\* process_market raises on a malformed market dict before it reaches the
\* strategy (evaluate_market, or slicing a question that is None): the
\* exception leaves process_markets and run_once logs it
process_market_raises ==
    /\ bot_pc = "for_loop"
    /\ LoopAwaits
    /\ targets # << >>
    /\ ~LoopBreaks
    /\ EndOfCycle
    /\ UNCHANGED <<open_positions, max_markets_open, running, entry, balance,
                   tasks, trades, starting_balance, cycles>>
    /\ UNCHANGED client_vars
    /\ UNCHANGED tracker_vars

\* process_market(market, balance) up to its return or to the await in
\* place_bet; is_resolved, rec and current_prob are read from the market
\* and from the strategy
process_market(is_resolved, rec, current_prob) ==
    /\ bot_pc = "for_loop"
    /\ LoopAwaits
    /\ targets # << >>
    /\ ~LoopBreaks
    /\ targets' = Tail(targets)
    /\ LET market_id == Head(targets)
           gate == can_trade(open_positions, market_id, rec.bet_amount, balance)
           bet_amount == adjust_bet_size(open_positions, rec.bet_amount,
                                         balance, market_id)
       IN  IF \/ is_resolved
              \/ market_id \in DOMAIN open_positions
              \/ ~rec.should_trade
              \/ GateStops(gate)
              \/ bet_amount < 1
           THEN UNCHANGED tasks
           ELSE tasks' = [m \in DOMAIN tasks \cup {market_id} |->
                            IF m = market_id
                            THEN Task(gate.allowed, bet_amount, rec.side, current_prob)
                            ELSE tasks[m]]
    /\ UNCHANGED <<open_positions, max_markets_open, running, entry, bot_pc,
                   balance, trades,
                   starting_balance, cycles>>
    /\ UNCHANGED client_vars
    /\ UNCHANGED tracker_vars

\* the executor call of place_bet ends: success is False when it raised
place_bet(market_id, success) ==
    /\ market_id \in DOMAIN tasks
    /\ tasks[market_id].pc = "place_bet"
    /\ tasks' = [tasks EXCEPT ![market_id].pc = "placed",
                              ![market_id].success = success]
    /\ UNCHANGED <<open_positions, max_markets_open, running, entry, bot_pc,
                   targets, balance, trades,
                   starting_balance, cycles>>
    /\ UNCHANGED client_vars
    /\ UNCHANGED tracker_vars

\* process_market goes on after place_bet: record the position and the trade
process_market_resumes(market_id) ==
    /\ market_id \in DOMAIN tasks
    /\ tasks[market_id].pc = "placed"
    /\ LET t == tasks[market_id]
       IN  IF RecordsPosition(t)
           THEN /\ open_positions' = record_position(open_positions, market_id,
                                        t.bet_amount, t.side, t.current_prob)
                /\ trades' = Append(trades,
                                 [market_id |-> market_id, side |-> t.side,
                                  amount |-> t.bet_amount,
                                  probability |-> t.current_prob])
           ELSE UNCHANGED <<open_positions, trades>>
    /\ tasks' = [m \in DOMAIN tasks \ {market_id} |-> tasks[m]]
    /\ UNCHANGED <<max_markets_open, running, entry, bot_pc, targets, balance,
                   starting_balance, cycles>>
    /\ UNCHANGED client_vars
    /\ UNCHANGED tracker_vars

\* asyncio.sleep returns and `while self.running` is tested again
sleep_returns ==
    /\ bot_pc = "sleep"
    /\ IF running
       THEN /\ cycles < MaxCycles
            /\ cycles' = cycles + 1
            /\ bot_pc' = "get_markets"
            /\ UNCHANGED running
       ELSE /\ running' = FALSE
            /\ bot_pc' = "done"
            /\ UNCHANGED cycles
    /\ UNCHANGED <<open_positions, max_markets_open, entry, targets, balance,
                   tasks, trades,
                   starting_balance>>
    /\ UNCHANGED client_vars
    /\ UNCHANGED tracker_vars

BotNext ==
    \/ run
    \/ run_once
    \/ stop
    \/ \E fetched \in FetchedLists : get_markets(fetched)
    \/ \E b \in Balances : get_user_balance(b)
    \/ for_loop_ends
    \/ \E r \in BOOLEAN, rec \in Recommendations, p \in Probs :
           process_market(r, rec, p)
    \/ process_market_raises
    \/ \E m \in Markets, ok \in BOOLEAN : place_bet(m, ok)
    \/ \E m \in Markets : process_market_resumes(m)
    \/ sleep_returns

BotSpec == Init /\ [][BotNext]_vars

\* the steps the event loop takes on the bot's behalf once the call the
\* coroutine awaits has completed
Resumes ==
    \/ \E fetched \in FetchedLists : get_markets(fetched)
    \/ \E b \in Balances : get_user_balance(b)
    \/ for_loop_ends
    \/ \E m \in Markets, ok \in BOOLEAN : place_bet(m, ok)
    \/ \E m \in Markets : process_market_resumes(m)
    \/ sleep_returns

\* every external call and every sleep completes, and the event loop then
\* resumes the coroutine
BotFairSpec == BotSpec /\ WF_vars(Resumes)

---------------------------------------------------------------------------
(* The trading strategies (src/strategies.py).  Probabilities and          *)
(* confidences are whole percents (0.35 is 35).  Amounts are rationals in  *)
(* currency units, kept in lowest terms so that equal amounts are equal    *)
(* records.  The arithmetic of LLMStrategy and KellyStrategy is exact.     *)
(* CompositeStrategy multiplies and adds floats in list order, and there   *)
(* every product and every partial sum is rounded to SigBits significant   *)
(* bits, to nearest and ties to even, as a Python float operation rounds   *)
(* to 53.                                                                  *)

min_confidence == 60

max_bet_amount == 50

\* the 0.05 of `if edge < 0.05`, in percent
min_edge == 5

\* KellyStrategy's default kelly_fraction 0.25, in percent
kelly_fraction == 25

\* the 1.0 of `if bet_amount < 1.0`
min_bet == 1

\* significand width of the model's floats
SigBits == 8

Abs(x) == IF x < 0 THEN -x ELSE x

RECURSIVE GCD(_, _)
GCD(a, b) == IF b = 0 THEN a ELSE GCD(b, a % b)

\* the number n/d (d > 0) in lowest terms
Rat(n, d) == LET g == GCD(Abs(n), d) IN [num |-> n \div g, den |-> d \div g]

RatMul(a, b) == Rat(a.num * b.num, a.den * b.den)

RatAdd(a, b) == Rat(a.num * b.den + b.num * a.den, a.den * b.den)

RatLess(a, b) == a.num * b.den < b.num * a.den

RatMin(a, b) == IF RatLess(b, a) THEN b ELSE a

Zero == Rat(0, 1)

\* a / b rounded to the nearest integer, ties to the even one (a >= 0, b > 0)
RoundHalfEven(a, b) ==
    LET q == a \div b
        r == a % b
    IN  IF 2 * r < b THEN q
        ELSE IF 2 * r > b THEN q + 1
        ELSE IF q % 2 = 0 THEN q ELSE q + 1

\* the k with 2^(SigBits-1) <= (n/d) * 2^k < 2^SigBits, searched from k
RECURSIVE Exponent(_, _, _)
Exponent(n, d, k) ==
    LET sn == IF k >= 0 THEN n * 2^k ELSE n
        sd == IF k >= 0 THEN d ELSE d * 2^(-k)
    IN  IF sn < sd * 2^(SigBits - 1) THEN Exponent(n, d, k + 1)
        ELSE IF sn >= sd * 2^SigBits THEN Exponent(n, d, k - 1)
        ELSE k

\* the float nearest to the non-negative number x
Fl(x) ==
    IF x.num = 0 THEN x
    ELSE LET k == Exponent(x.num, x.den, 0)
             m == IF k >= 0 THEN RoundHalfEven(x.num * 2^k, x.den)
                  ELSE RoundHalfEven(x.num, x.den * 2^(-k))
         IN  IF k >= 0 THEN Rat(m, 2^k) ELSE Rat(m * 2^(-k), 1)

\* the literal None passed as llm_prediction; a prediction is <<prob, conf>>
NoPrediction == << >>

Decline == [should_trade |-> FALSE, bet_amount |-> Zero, side |-> "NO"]

\* market.get("probability", 0.5)
probability(market) ==
    IF "probability" \in DOMAIN market THEN market.probability ELSE 50

BelowMinConfidence_Never(confidence) == FALSE

BelowMinConfidence(confidence) == confidence < min_confidence

llm_bet_amount_NoCap(edge, confidence) == Rat(edge * confidence, 100)

\* the strategy capped at max_position_size instead of max_bet_amount
llm_bet_amount_PositionCap(edge, confidence) ==
    RatMin(Rat(max_position_size, 1), Rat(edge * confidence, 100))

\* min(self.max_bet, edge * confidence * 100)
llm_bet_amount(edge, confidence) ==
    RatMin(Rat(max_bet_amount, 1), Rat(edge * confidence, 100))

\* LLMStrategy(min_confidence, max_bet_amount).should_trade
LLMStrategy_should_trade(market, llm_prediction) ==
    IF llm_prediction = NoPrediction THEN Decline
    ELSE LET llm_prob     == llm_prediction[1]
             confidence   == llm_prediction[2]
             current_prob == probability(market)
             edge         == Abs(llm_prob - current_prob)
         IN  IF BelowMinConfidence(confidence) THEN Decline
             ELSE IF edge < min_edge THEN Decline
             ELSE [should_trade |-> TRUE,
                   bet_amount   |-> llm_bet_amount(edge, confidence),
                   side |-> IF llm_prob > current_prob THEN "YES" ELSE "NO"]

\* KellyStrategy recommending YES whatever the prediction
kelly_side_AlwaysYes(llm_prob, current_prob) == "YES"

kelly_side_Swapped(llm_prob, current_prob) ==
    IF llm_prob > current_prob THEN "NO" ELSE "YES"

\* the branch of `if llm_prob > current_prob`
kelly_side(llm_prob, current_prob) ==
    IF llm_prob > current_prob THEN "YES" ELSE "NO"

BelowMinBet_Never(bet_amount) == FALSE

BelowMinBet(bet_amount) == RatLess(bet_amount, Rat(min_bet, 1))

\* KellyStrategy(max_bet_amount).should_trade
KellyStrategy_should_trade(market, llm_prediction) ==
    IF llm_prediction = NoPrediction THEN Decline
    ELSE LET llm_prob     == llm_prediction[1]
             current_prob == probability(market)
             yes          == llm_prob > current_prob
             p            == IF yes THEN llm_prob ELSE 100 - llm_prob
             q            == IF yes THEN current_prob ELSE 100 - current_prob
             edge         == p - q
             kelly        == IF q < 100 THEN Rat(edge, 100 - q) ELSE Zero
             bet_amount   == RatMin(Rat(max_bet_amount, 1),
                                    RatMul(kelly, Rat(kelly_fraction * 100, 100)))
         IN  IF edge <= 0 THEN Decline
             ELSE IF BelowMinBet(bet_amount) THEN Decline
             ELSE [should_trade |-> TRUE, bet_amount |-> bet_amount,
                   side |-> kelly_side(llm_prob, current_prob)]

\* strategy.should_trade(market, analysis, llm_prediction) for the
\* sub-strategy objects of a composite: the two classes above, and any
\* other TradingStrategy, which stands for what it returns
should_trade(strategy, market, llm_prediction) ==
    CASE strategy.class = "LLMStrategy" ->
             LLMStrategy_should_trade(market, llm_prediction)
      [] strategy.class = "KellyStrategy" ->
             KellyStrategy_should_trade(market, llm_prediction)
      [] OTHER -> strategy.returns

\* a missing weight list, which `weights or ...` replaces
NoWeights == << >>

\* CompositeStrategy.__init__: weights or [1.0 / len(strategies)] * len(strategies)
composite_weights(strategies, weights) ==
    IF weights = NoWeights
    THEN [i \in 1..Len(strategies) |-> Fl(Rat(1, Len(strategies)))]
    ELSE weights

\* the for loop over zip(self.strategies, self.weights)
RECURSIVE recommendations(_, _, _, _)
recommendations(strategies, weights, market, llm_prediction) ==
    IF strategies = << >> \/ weights = << >> THEN << >>
    ELSE LET r    == should_trade(Head(strategies), market, llm_prediction)
             rest == recommendations(Tail(strategies), Tail(weights),
                                     market, llm_prediction)
         IN  IF r.should_trade
             THEN <<[amt  |-> Fl(RatMul(r.bet_amount, Head(weights))),
                     side |-> r.side]>> \o rest
             ELSE rest

\* sum(amt for amt, side in recommendations if side == ...), which adds
\* from the left, starting at acc
RECURSIVE sum(_, _, _)
sum(acc, recs, side) ==
    IF recs = << >> THEN acc
    ELSE sum(IF Head(recs).side = side THEN Fl(RatAdd(acc, Head(recs).amt))
             ELSE acc,
             Tail(recs), side)

aggregate_TieTradesYes(yes_bets, no_bets) ==
    IF ~RatLess(yes_bets, no_bets)
    THEN [should_trade |-> TRUE, bet_amount |-> yes_bets, side |-> "YES"]
    ELSE [should_trade |-> TRUE, bet_amount |-> no_bets, side |-> "NO"]

\* the if / elif / else on yes_bets and no_bets
aggregate(yes_bets, no_bets) ==
    IF RatLess(no_bets, yes_bets)
    THEN [should_trade |-> TRUE, bet_amount |-> yes_bets, side |-> "YES"]
    ELSE IF RatLess(yes_bets, no_bets)
    THEN [should_trade |-> TRUE, bet_amount |-> no_bets, side |-> "NO"]
    ELSE Decline

\* CompositeStrategy(strategies, weights).should_trade
CompositeStrategy_should_trade(strategies, weights, market, llm_prediction) ==
    LET recs == recommendations(strategies, composite_weights(strategies, weights),
                                market, llm_prediction)
    IN  IF recs = << >> THEN Decline
        ELSE aggregate(sum(Zero, recs, "YES"), sum(Zero, recs, "NO"))

\* the market probabilities, in percent; the first market has none
MarketProbabilities == {0, 35, 50, 62, 65, 100}

StrategyMarkets ==
    {[id |-> "m1"]} \cup
    {[id |-> "m2", probability |-> p] : p \in MarketProbabilities}

\* predictions: none, or <<probability, confidence>> in percent; 150 is a
\* probability the label scan of the parser lets through unclamped
Predictions ==
    {NoPrediction} \cup ({0, 35, 38, 50, 65, 97, 100, 150} \X {0, 59, 60, 75, 100})

\* sub-strategies of a third class, by what they return
Fixed(amount, side) ==
    [class |-> "Fixed",
     returns |-> [should_trade |-> TRUE, bet_amount |-> amount, side |-> side]]

SubStrategies ==
    {[class |-> "LLMStrategy"], [class |-> "KellyStrategy"],
     Fixed(Rat(10, 1), "YES"), Fixed(Rat(10, 1), "NO")}

MaxStrategies == 3

StrategyLists ==
    UNION {[1..n -> SubStrategies] : n \in 1..MaxStrategies}

\* the floats written 0.1, 0.2 and 0.3
Tenth == Fl(Rat(1, 10))

Fifth == Fl(Rat(2, 10))

ThreeTenths == Fl(Rat(3, 10))

Half == Rat(1, 2)

WeightTriples ==
    {<<Tenth, Fifth, ThreeTenths>>, <<ThreeTenths, Fifth, Tenth>>,
     <<Fifth, ThreeTenths, Tenth>>, <<Half, Half, Half>>,
     <<ThreeTenths, Tenth, Half>>}

\* no weight list, or one weight for each sub-strategy, taken from a
\* triple in turn
WeightLists(n) ==
    {NoWeights} \cup {[i \in 1..n |-> w[((i - 1) % 3) + 1]] : w \in WeightTriples}

\* the markets and predictions a composite is asked about: no prediction,
\* both classes for YES, LLMStrategy declining on a small edge, both for NO
CompositeQuestions ==
    {<<[id |-> "m2", probability |-> 35], NoPrediction>>,
     <<[id |-> "m2", probability |-> 35], <<65, 75>>>>,
     <<[id |-> "m2", probability |-> 35], <<38, 75>>>>,
     <<[id |-> "m2", probability |-> 62], <<35, 100>>>>}

\* the strategies keep nothing from one call to the next, so one call on
\* a fresh object stands for every call
FirstCall == call = NoCall

Call_LLMStrategy(market, llm_prediction) ==
    /\ FirstCall
    /\ call' = [op |-> "LLMStrategy", market |-> market,
                llm_prediction |-> llm_prediction,
                result |-> LLMStrategy_should_trade(market, llm_prediction)]
    /\ UNCHANGED <<open_positions, max_markets_open, bypassed>>
    /\ UNCHANGED bot_vars
    /\ UNCHANGED tracker_vars

Call_KellyStrategy(market, llm_prediction) ==
    /\ FirstCall
    /\ call' = [op |-> "KellyStrategy", market |-> market,
                llm_prediction |-> llm_prediction,
                result |-> KellyStrategy_should_trade(market, llm_prediction)]
    /\ UNCHANGED <<open_positions, max_markets_open, bypassed>>
    /\ UNCHANGED bot_vars
    /\ UNCHANGED tracker_vars

Call_CompositeStrategy(strategies, weights, market, llm_prediction) ==
    /\ FirstCall
    /\ call' = [op |-> "CompositeStrategy", strategies |-> strategies,
                weights |-> weights, market |-> market,
                llm_prediction |-> llm_prediction,
                result |-> CompositeStrategy_should_trade(strategies, weights,
                                                          market, llm_prediction)]
    /\ UNCHANGED <<open_positions, max_markets_open, bypassed>>
    /\ UNCHANGED bot_vars
    /\ UNCHANGED tracker_vars

\* should_trade of each strategy class, on any market and prediction
StrategyNext ==
    \/ \E m \in StrategyMarkets, p \in Predictions : Call_LLMStrategy(m, p)
    \/ \E m \in StrategyMarkets, p \in Predictions : Call_KellyStrategy(m, p)
    \/ \E s \in StrategyLists, q \in CompositeQuestions :
           \E w \in WeightLists(Len(s)) : Call_CompositeStrategy(s, w, q[1], q[2])

StrategySpec == Init /\ [][StrategyNext]_vars

---------------------------------------------------------------------------
(* MarketAnalyzer.evaluate_market (src/market_analyzer.py).  Liquidity and *)
(* volume are whole currency units and the scores are exact rationals.     *)
(* Times are whole seconds: a closeTime c stands for the millisecond       *)
(* value 1000 * c, of which close_time / 1000 is c.  An exception is a     *)
(* result with raised = TRUE, which a caller passes on unless it has an    *)
(* except clause.                                                          *)

\* MarketAnalyzer.min_liquidity, as the bot passes it
min_market_liquidity == 50

\* the largest timestamp datetime.fromtimestamp converts; beyond it the
\* call raises
MaxTimestamp == 2000000000

One == Rat(1, 1)

\* market.get(key, default)
get(market, key, default) ==
    IF key \in DOMAIN market THEN market[key] ELSE default

Returned(value) == [raised |-> FALSE, value |-> value]

Raised == [raised |-> TRUE, value |-> Zero]

liquidity_score_NoCap(market) ==
    LET total_liquidity == get(market, "totalLiquidity", 0)
    IN  IF total_liquidity < min_market_liquidity THEN Zero
        ELSE Rat(total_liquidity, 200)

\* _calculate_liquidity_score
liquidity_score(market) ==
    LET total_liquidity == get(market, "totalLiquidity", 0)
    IN  IF total_liquidity < min_market_liquidity THEN Zero
        ELSE RatMin(One, Rat(total_liquidity, 200))

\* datetime.fromtimestamp(close_time / 1000)
fromtimestamp(close_time) ==
    IF close_time > MaxTimestamp THEN Raised ELSE Returned(close_time)

time_band_UpperInclusive(time_remaining) ==
    IF time_remaining < 0 THEN Zero
    ELSE IF time_remaining <= 86400 THEN Rat(3, 10)
    ELSE IF time_remaining <= 604800 THEN One
    ELSE IF time_remaining <= 2592000 THEN Rat(7, 10)
    ELSE Rat(4, 10)

\* the if / elif chain on time_remaining
time_band(time_remaining) ==
    IF time_remaining < 0 THEN Zero
    ELSE IF time_remaining < 86400 THEN Rat(3, 10)
    ELSE IF time_remaining < 604800 THEN One
    ELSE IF time_remaining < 2592000 THEN Rat(7, 10)
    ELSE Rat(4, 10)

\* _calculate_time_score at the clock reading now; `not close_time` holds
\* of a missing closeTime and of closeTime 0, and the except clause turns
\* an exception of the conversion into 0.5
time_score(market, now) ==
    IF "closeTime" \notin DOMAIN market \/ market.closeTime = 0
    THEN Returned(Rat(1, 2))
    ELSE LET close_dt == fromtimestamp(market.closeTime)
         IN  IF close_dt.raised THEN Returned(Rat(1, 2))
             ELSE Returned(time_band(close_dt.value - now))

\* _calculate_volatility_score
volatility_score(market) ==
    LET volume_24h    == get(market, "volume24Hours", 0)
        liquidity     == get(market, "totalLiquidity", 1)
        turnover_rate == IF liquidity > 0 THEN Rat(volume_24h, liquidity) ELSE Zero
    IN  RatMin(One, RatMul(turnover_rate, Rat(2, 1)))

\* _calculate_volume_score
volume_score(market) ==
    RatMin(One, Rat(get(market, "volume24Hours", 0), 100))

\* evaluate_market at the clock reading now
evaluate_market(market, now) ==
    LET l == liquidity_score(market)
        t == time_score(market, now)
        v == volatility_score(market)
        u == volume_score(market)
    IN  IF t.raised THEN [raised |-> TRUE]
        ELSE [raised           |-> FALSE,
              liquidity_score  |-> l,
              time_score       |-> t.value,
              volatility_score |-> v,
              volume_score     |-> u,
              overall_score    |->
                  RatAdd(RatAdd(RatAdd(RatMul(l, Rat(30, 100)),
                                       RatMul(t.value, Rat(25, 100))),
                                RatMul(v, Rat(25, 100))),
                         RatMul(u, Rat(20, 100)))]

\* the clock readings, in seconds
Nows == {1000000, 1000001}

\* how far after (or before) the clock reading a market closes
Remainings ==
    {-1, 0, 1, 86399, 86400, 604799, 604800, 2591999, 2592000, 31536000}

\* closeTime values: 0, around each band boundary, and out of range
CloseTimes(now) == {0, MaxTimestamp + 1} \cup {now + r : r \in Remainings}

Liquidities == {0, 10, 49, 50, 100, 200, 1000}

Volumes == {-5, 0, 5, 50, 100, 500}

\* a market with the keys that are marked present
Snapshot(has_l, l, has_v, v, has_c, c) ==
    [k \in (IF has_l THEN {"totalLiquidity"} ELSE {}) \cup
           (IF has_v THEN {"volume24Hours"} ELSE {}) \cup
           (IF has_c THEN {"closeTime"} ELSE {}) |->
        CASE k = "totalLiquidity" -> l
          [] k = "volume24Hours"  -> v
          [] k = "closeTime"      -> c]

Call_evaluate_market(market, now) ==
    /\ FirstCall
    /\ call' = [op |-> "evaluate_market", market |-> market, now |-> now,
                result |-> evaluate_market(market, now)]
    /\ UNCHANGED <<open_positions, max_markets_open, bypassed>>
    /\ UNCHANGED bot_vars
    /\ UNCHANGED tracker_vars

\* evaluate_market on any market, at any clock reading
EvaluatorNext ==
    \E now \in Nows, has_l, has_v, has_c \in BOOLEAN, l \in Liquidities,
       v \in Volumes :
        \E c \in CloseTimes(now) :
            Call_evaluate_market(Snapshot(has_l, l, has_v, v, has_c, c), now)

EvaluatorSpec == Init /\ [][EvaluatorNext]_vars

---------------------------------------------------------------------------
(* LLMAnalyzer._parse_response (src/llm_analyzer.py).  The response is a   *)
(* sequence of tokens (the white space between them is left out), the two  *)
(* regular expressions are searches over the tokens, and json.loads is a   *)
(* parser of the object grammar over them.  Numbers are whole percents     *)
(* (0.7 is 70, 75 is 7500).                                                *)

\* a paragraph of prose of exactly 200 characters
Paragraph == "paragraph"

Word == "likely"

\* the three number tokens: "1.2.3" is matched by [0-9.]+ and is no number
NumberTokens == {"0.7", "75", "1.2.3"}

Labels == {"probability", "confidence"}

Quoted(label) == IF label = "probability" THEN "\"probability\"" ELSE "\"confidence\""

LabelTokens(label) == {label, Quoted(label)}

\* the characters a token takes of the first 200
CharLen(token) == IF token = Paragraph THEN 200 ELSE 1

\* float(s) of a number token
float(token) ==
    CASE token = "0.7" -> Returned(70)
      [] token = "75"  -> Returned(7500)
      [] OTHER         -> Raised

\* max(0.0, min(1.0, x))
clamp(x) == Max(0, Min(100, x))

\* position of the first "}" after position i, or 0
RECURSIVE FirstClose(_, _)
FirstClose(response, i) ==
    IF i >= Len(response) THEN 0
    ELSE IF response[i + 1] = "}" THEN i + 1
    ELSE FirstClose(response, i + 1)

\* re.search(r'\{[^}]+\}', response): the leftmost "{" that has a "}" after
\* at least one other token; << >> when there is none
RECURSIVE object_search(_, _)
object_search(response, i) ==
    IF i > Len(response) THEN << >>
    ELSE LET j == FirstClose(response, i)
         IN  IF response[i] = "{" /\ j > i + 1 THEN SubSeq(response, i, j)
             ELSE object_search(response, i + 1)

\* the members of an object between the braces: "key" : number, separated
\* by commas; a later member replaces an earlier one of the same key
RECURSIVE members(_, _)
members(tokens, data) ==
    IF Len(tokens) < 3 THEN Raised
    ELSE IF \/ tokens[1] \notin {Quoted(l) : l \in Labels}
            \/ tokens[2] # ":"
            \/ float(tokens[3]).raised
    THEN Raised
    ELSE LET label == IF tokens[1] = Quoted("probability") THEN "probability"
                      ELSE "confidence"
             next  == [k \in DOMAIN data \cup {label} |->
                          IF k = label THEN float(tokens[3]).value ELSE data[k]]
         IN  IF Len(tokens) = 3 THEN Returned(next)
             ELSE IF tokens[4] = "," THEN members(SubSeq(tokens, 5, Len(tokens)), next)
             ELSE Raised

\* json.loads(json_match.group())
json_loads(match) == members(SubSeq(match, 2, Len(match) - 1), << >>)

\* re.search(label + r'["\']?\s*:\s*([0-9.]+)', response): the number token
\* of the leftmost match, or << >>
RECURSIVE label_search(_, _, _)
label_search(response, label, i) ==
    IF i + 2 > Len(response) THEN << >>
    ELSE IF /\ response[i] \in LabelTokens(label)
            /\ response[i + 1] = ":"
            /\ response[i + 2] \in NumberTokens
    THEN <<response[i + 2]>>
    ELSE label_search(response, label, i + 1)

\* response[:200]
RECURSIVE first_200(_, _)
first_200(response, room) ==
    IF response = << >> \/ CharLen(Head(response)) > room THEN << >>
    ELSE <<Head(response)>> \o first_200(Tail(response), room - CharLen(Head(response)))

\* the except clause: return 0.5, 0.0, f"Parse error: {str(e)}"
ParseError == [probability |-> 50, confidence |-> 0, reasoning |-> <<"Parse error">>]

\* _parse_response
parse_response(response) ==
    LET json_match == object_search(response, 1)
    IN  IF json_match # << >>
        THEN LET data == json_loads(json_match)
             IN  IF data.raised THEN ParseError
                 ELSE [probability |-> clamp(get(data.value, "probability", 50)),
                       confidence  |-> clamp(get(data.value, "confidence", 50)),
                       reasoning   |-> <<"No reasoning provided">>]
        ELSE LET prob_match == label_search(response, "probability", 1)
                 conf_match == label_search(response, "confidence", 1)
                 prob == IF prob_match # << >> THEN float(prob_match[1])
                         ELSE Returned(50)
                 confidence == IF conf_match # << >> THEN float(conf_match[1])
                               ELSE Returned(50)
             IN  IF prob.raised \/ confidence.raised THEN ParseError
                 ELSE [probability |-> prob.value,
                       confidence  |-> confidence.value,
                       reasoning   |-> first_200(response, 200)]

\* label : number, with the label quoted or bare
Member(label) ==
    {<<t, ":", n>> : t \in LabelTokens(label), n \in NumberTokens}

\* nothing, one member, or a probability member and a confidence member
MemberLists ==
    {<< >>} \cup Member("probability") \cup Member("confidence") \cup
    {p \o <<",">> \o c : p \in Member("probability"), c \in Member("confidence")}

\* the members as an object, as an object cut before its "}", and bare
Bodies ==
    UNION {{<<"{">> \o m \o <<"}">>, <<"{">> \o m, m} : m \in MemberLists}

\* responses: a body after nothing, after a word, after "{" and after a
\* paragraph of 200 characters
Responses ==
    {pre \o body : pre \in {<< >>, <<Word>>, <<"{">>, <<Paragraph>>}, body \in Bodies}

Call_parse_response(response) ==
    /\ FirstCall
    /\ call' = [op |-> "_parse_response", response |-> response,
                result |-> parse_response(response)]
    /\ UNCHANGED <<open_positions, max_markets_open, bypassed>>
    /\ UNCHANGED bot_vars
    /\ UNCHANGED tracker_vars

\* _parse_response on any response
ParserNext == \E response \in Responses : Call_parse_response(response)

ParserSpec == Init /\ [][ParserNext]_vars

---------------------------------------------------------------------------
(* One process_market call of the bot with its own strategy                *)
(* (src/bot.py 181-250): the composite of LLMStrategy and KellyStrategy,   *)
(* the gate, the clamp and place_bet.  The strategy's amount is a          *)
(* rational; the ledger states drawn hold whole amounts and the balances   *)
(* make the portfolio budget whole, so every limit the gate and the clamp  *)
(* compare the amount with is a whole number K, and x > K exactly when     *)
(* Ceil(x) > K.                                                            *)

\* CompositeStrategy([llm_strategy, kelly_strategy]): no weights given
bot_strategies == <<[class |-> "LLMStrategy"], [class |-> "KellyStrategy"]>>

\* the analyzer consulted whether or not it has a client
llm_prediction_of_Always(has_client, analysis) == analysis

\* llm_prediction stays None unless the analyzer has a client; with a
\* client it is what analyze_market returned
llm_prediction_of(has_client, analysis) ==
    IF has_client THEN analysis ELSE NoPrediction

\* the least whole number that is not below x
Ceil(x) == (x.num + x.den - 1) \div x.den

NoBet == [placed |-> FALSE, bet_amount |-> Zero, side |-> "NO", recorded |-> FALSE]

\* `if bet_amount < 1.0: return`
BelowOne(bet_amount) == RatLess(bet_amount, Rat(1, 1))

\* the bet one process_market call places, if any, and whether it is
\* recorded: success is what place_bet returned
process_market_bet(positions, market, is_resolved, has_client, analysis, current_balance, success) ==
    LET market_id == market.id
        llm_prediction == llm_prediction_of(has_client, analysis)
        rec   == CompositeStrategy_should_trade(bot_strategies, NoWeights,
                                                market, llm_prediction)
        whole == Ceil(rec.bet_amount)
        gate  == can_trade(positions, market_id, whole, current_balance)
        limit == adjust_bet_size(positions, whole, current_balance, market_id)
        bet_amount == IF limit < whole THEN Rat(limit, 1) ELSE rec.bet_amount
    IN  IF \/ is_resolved
           \/ market_id \in DOMAIN positions
           \/ ~rec.should_trade
           \/ GateStops(gate)
           \/ BelowOne(bet_amount)
        THEN NoBet
        ELSE [placed |-> TRUE, bet_amount |-> bet_amount, side |-> rec.side,
              recorded |-> success]

\* ledger states a call starts from: empty, one position, and two
\* positions that leave 10 of the budget of a balance of 500
Ledgers ==
    {EmptyLedger,
     record_position(EmptyLedger, "m1", 80, "YES", 35),
     record_position(EmptyLedger, "m2", 80, "NO", 50),
     record_position(record_position(EmptyLedger, "m1", 80, "YES", 35),
                     "m3", 60, "NO", 50)}

\* what analyze_market returns to the bot: the fallback of a provider or
\* parse failure (0.5 with confidence 0), a confidence just under
\* min_confidence, confident predictions for YES and for NO, a certain
\* one, and a probability the parser let through unclamped
Analyses ==
    {<<50, 0>>, <<65, 59>>, <<65, 75>>, <<35, 100>>, <<100, 100>>, <<150, 100>>}

Call_process_market(positions, market, is_resolved, has_client, analysis, current_balance, success) ==
    /\ FirstCall
    /\ call' = [op |-> "process_market", positions |-> positions,
                market |-> market, is_resolved |-> is_resolved,
                has_client |-> has_client, analysis |-> analysis,
                llm_prediction |-> llm_prediction_of(has_client, analysis),
                balance |-> current_balance,
                result |-> process_market_bet(positions, market, is_resolved,
                                              has_client, analysis,
                                              current_balance, success)]
    /\ UNCHANGED <<open_positions, max_markets_open, bypassed>>
    /\ UNCHANGED bot_vars
    /\ UNCHANGED tracker_vars

\* process_market on any ledger, market, prediction and balance
DecisionNext ==
    \E positions \in Ledgers, market \in StrategyMarkets,
       is_resolved \in BOOLEAN, has_client \in BOOLEAN,
       analysis \in Analyses, b \in Balances,
       success \in BOOLEAN :
        Call_process_market(positions, market, is_resolved, has_client,
                            analysis, b, success)

DecisionSpec == Init /\ [][DecisionNext]_vars

---------------------------------------------------------------------------
(* The gate and the clamp in floating point (src/risk_manager.py 29-101),  *)
(* as process_market calls them one after the other on the same ledger.    *)
(* Amounts and balances are floats of SigBits significant bits, every      *)
(* arithmetic result is rounded with Fl, and the ledger is the sequence of *)
(* its positions in insertion order, the order in which sum() adds them.   *)

RatSub(a, b) == Rat(a.num * b.den - b.num * a.den, a.den * b.den)

\* a / b for b > 0
RatDiv(a, b) == Rat(a.num * b.den, a.den * b.num)

RatMax(a, b) == IF RatLess(a, b) THEN b ELSE a

\* the float nearest to x, of either sign
FlSigned(x) ==
    IF x.num < 0 THEN LET y == Fl(Rat(-x.num, x.den)) IN Rat(-y.num, y.den)
    ELSE Fl(x)

\* self.max_portfolio_risk, the float written 0.3
risk_limit == Fl(Rat(max_portfolio_risk, 100))

\* sum(pos.get("amount", 0) for pos in self.open_positions.values())
RECURSIVE float_sum(_, _)
float_sum(acc, ledger) ==
    IF ledger = << >> THEN acc
    ELSE float_sum(Fl(RatAdd(acc, Head(ledger).amount)), Tail(ledger))

\* total_at_risk / current_balance
risk_ratio(total, current_balance) == Fl(RatDiv(total, current_balance))

\* max_total_risk - total_at_risk
max_bet_float(ledger, current_balance) ==
    FlSigned(RatSub(Fl(RatMul(current_balance, risk_limit)),
                    float_sum(Zero, ledger)))

\* can_trade(market_id, proposed_bet, current_balance)[0]
can_trade_float(ledger, market_id, proposed_bet, current_balance) ==
    IF \E i \in DOMAIN ledger : ledger[i].market_id = market_id THEN FALSE
    ELSE IF RatLess(Rat(max_position_size, 1), proposed_bet) THEN FALSE
    ELSE IF /\ RatLess(Zero, current_balance)
            /\ RatLess(risk_limit,
                       risk_ratio(Fl(RatAdd(float_sum(Zero, ledger), proposed_bet)),
                                  current_balance))
    THEN FALSE
    ELSE IF Len(ledger) >= max_markets_open THEN FALSE
    ELSE TRUE

\* adjust_bet_size(proposed_bet, current_balance, market_id)
adjust_bet_size_float(ledger, proposed_bet, current_balance, market_id) ==
    LET capped   == RatMin(proposed_bet, Rat(max_position_size, 1))
        adjusted == IF RatLess(Zero, current_balance)
                    THEN RatMin(capped, max_bet_float(ledger, current_balance))
                    ELSE capped
    IN  RatMax(Zero, adjusted)

\* ledgers of none, one and two positions
FloatLedgers ==
    {<< >>,
     <<[market_id |-> "m1", amount |-> Rat(4, 1)]>>,
     <<[market_id |-> "m1", amount |-> Rat(4, 1)],
       [market_id |-> "m3", amount |-> Rat(5, 2)]>>}

\* amounts from 16 to 31.875 in steps of 1/8, each a float of 8 bits
FloatAmounts == {Rat(n, 8) : n \in 128..255}

\* no balance, and balances whose budget lies among the amounts
FloatBalances == {Rat(b, 1) : b \in {0, 60, 70, 80, 90, 100}}

\* bot.py 220-229: the gate, then the clamp, on the same ledger
Call_gate_then_clamp(ledger, market_id, proposed_bet, current_balance) ==
    /\ FirstCall
    /\ call' = [op |-> "gate_then_clamp", ledger |-> ledger,
                market_id |-> market_id, amount |-> proposed_bet,
                balance |-> current_balance,
                allowed |-> can_trade_float(ledger, market_id, proposed_bet,
                                            current_balance),
                result |-> adjust_bet_size_float(ledger, proposed_bet,
                                                 current_balance, market_id)]
    /\ UNCHANGED <<open_positions, max_markets_open, bypassed>>
    /\ UNCHANGED bot_vars
    /\ UNCHANGED tracker_vars

GateClampNext ==
    \E ledger \in FloatLedgers, m \in Markets, a \in FloatAmounts,
       b \in FloatBalances :
        Call_gate_then_clamp(ledger, m, a, b)

GateClampSpec == Init /\ [][GateClampNext]_vars

---------------------------------------------------------------------------
(* MarketResolutionTracker (src/market_resolution_tracker.py).  A market's *)
(* resolution is None, a string or a number, told apart by `kind`; a       *)
(* number is in percent (0.7 is 70), like the entry probability.  Profit   *)
(* and loss are exact.                                                     *)

NoResolution == [kind |-> "none", text |-> "", number |-> 0]

Text(s) == [kind |-> "str", text |-> s, number |-> 0]

Number(n) == [kind |-> "num", text |-> "", number |-> n]

\* what check_resolution returns when it returns None
NoData == [none |-> TRUE]

\* Python's `not resolution`: None, the empty string and zero are false
not(resolution) ==
    \/ resolution.kind = "none"
    \/ resolution.kind = "str" /\ resolution.text = ""
    \/ resolution.kind = "num" /\ resolution.number = 0

\* the if/elif chain that sets `won`
won(resolution, side) ==
    IF resolution.kind = "str" /\ resolution.text = "YES" /\ side = "YES"
    THEN TRUE
    ELSE IF resolution.kind = "str" /\ resolution.text = "NO" /\ side = "NO"
    THEN TRUE
    ELSE IF resolution.kind = "num"
    THEN \/ side = "YES" /\ resolution.number > 50
         \/ side = "NO" /\ resolution.number <= 50
    ELSE FALSE

\* amount * (1.0 / entry_prob - 1.0) if entry_prob > 0 else 0, or -amount
pnl(position, has_won) ==
    IF has_won
    THEN IF position.entry_prob > 0
         THEN Rat(position.amount * (100 - position.entry_prob),
                  position.entry_prob)
         ELSE Zero
    ELSE Rat(-position.amount, 1)

resolution_data(market_id, position, resolution) ==
    [market_id |-> market_id,
     market_question |-> position.market_question,
     side |-> position.side, amount |-> position.amount,
     entry_prob |-> position.entry_prob, resolution |-> resolution,
     won |-> won(resolution, position.side),
     pnl |-> pnl(position, won(resolution, position.side)),
     resolved_at |-> None]

\* self.pending_positions[market_id] = {...}
track_position(market_id, side, amount, entry_prob, market_question) ==
    /\ pending_positions' =
           [m \in DOMAIN pending_positions \cup {market_id} |->
               IF m = market_id
               THEN [side |-> side, amount |-> amount, entry_prob |-> entry_prob,
                     market_question |-> market_question, entry_time |-> None]
               ELSE pending_positions[m]]
    /\ call' = [op |-> "track_position", market_id |-> market_id]
    /\ UNCHANGED resolved_markets
    /\ UNCHANGED <<open_positions, max_markets_open, bypassed>>
    /\ UNCHANGED bot_vars

check_resolution(market) ==
    LET market_id   == get(market, "id", None)
        is_resolved == get(market, "isResolved", FALSE)
        resolution  == get(market, "resolution", NoResolution)
    IN  /\ IF ~is_resolved \/ not(resolution)
           THEN /\ call' = [op |-> "check_resolution", market |-> market,
                            result |-> NoData]
                /\ UNCHANGED tracker_vars
           ELSE IF market_id \notin DOMAIN pending_positions
           THEN /\ call' = [op |-> "check_resolution", market |-> market,
                            result |-> NoData]
                /\ UNCHANGED tracker_vars
           ELSE LET data == resolution_data(market_id,
                                            pending_positions[market_id],
                                            resolution)
                IN  /\ resolved_markets' =
                           [m \in DOMAIN resolved_markets \cup {market_id} |->
                               IF m = market_id THEN data
                               ELSE resolved_markets[m]]
                    /\ pending_positions' =
                           [m \in DOMAIN pending_positions \ {market_id} |->
                               pending_positions[m]]
                    /\ call' = [op |-> "check_resolution", market |-> market,
                                result |-> data]
        /\ UNCHANGED <<open_positions, max_markets_open, bypassed>>
        /\ UNCHANGED bot_vars

\* the markets the tracker is asked about
TrackedMarkets == {"m1", "m2"}

\* the positions tracked: (side, amount, entry probability)
TrackedPositions == {<<"YES", 10, 35>>, <<"NO", 25, 50>>}

\* resolutions: none, won and lost strings, and the numbers 0 and 0.7
Resolutions == {NoResolution, Text("YES"), Text("CANCEL"), Number(0), Number(70)}

\* market dicts as the API returns them, the isResolved key given or not
ResolutionSnapshots ==
    {[id |-> m, resolution |-> r] : m \in TrackedMarkets, r \in Resolutions}
    \cup
    {[id |-> m, isResolved |-> b, resolution |-> r] :
        m \in TrackedMarkets, b \in BOOLEAN, r \in Resolutions}

TrackerNext ==
    \/ \E m \in TrackedMarkets, p \in TrackedPositions :
           track_position(m, p[1], p[2], p[3], "q")
    \/ \E market \in ResolutionSnapshots : check_resolution(market)

TrackerSpec == Init /\ [][TrackerNext]_vars

---------------------------------------------------------------------------
(* The claims.                                                             *)

Count == Cardinality(DOMAIN open_positions)

\* the sum of the open amounts is within balance b times max_portfolio_risk
WithinBudget(total, b) == total * 100 <= max_portfolio_risk * b

RecordedThroughGate == call.op = "record_position" /\ ~bypassed

C2_CountWithinLimit == ~bypassed => Count <= max_markets_open

C2_Witness ==
    /\ ~bypassed
    /\ Count = 2
    /\ max_markets_open = 2
    /\ call.op = "can_trade"
    /\ call.reason = "At max open positions"

\* C3 as stated: in every reachable state of the ledger each open
\* position's amount is at most max_position_size.
C3_EveryPositionWithinLimit ==
    \A m \in DOMAIN open_positions : open_positions[m].amount <= max_position_size

\* C3 amended: the bound holds in every state reached by calls in which
\* each record_position came through an allowing can_trade for at least the
\* recorded amount (record_position itself accepts any amount).
C3_GatedPositionWithinLimit ==
    ~bypassed => C3_EveryPositionWithinLimit

C3_Witness ==
    /\ ~bypassed
    /\ \E m \in DOMAIN open_positions : open_positions[m].amount = 90
    /\ call.op = "can_trade"
    /\ call.reason = "Exceeds max position size"

PendingAmounts == SumAmounts([m \in DOMAIN tasks |-> [amount |-> tasks[m].bet_amount]],
                             DOMAIN tasks)

\* C4: at most one process_market call is between its can_trade and its
\* record_position at any time, so the decision in flight and the open
\* positions together fit the budget its gate was checked against.
C4_OneTransactionInFlight ==
    /\ Cardinality(DOMAIN tasks) <= 1
    /\ (tasks # NoTasks /\ balance > 0)
          => WithinBudget(total_at_risk(open_positions) + PendingAmounts, balance)

C4_Witness ==
    /\ tasks # NoTasks
    /\ targets # << >>
    /\ running
    /\ balance = 1000
    /\ open_positions # EmptyLedger

\* C5: in the bot the ledger changes only by process_market recording the
\* position of a market whose gate allowed and whose place_bet reported
\* success; a process_market call that ends after a failed place_bet, and
\* one the gate stopped, leave the ledger as it was.
C5_RecordOnlyAfterGateAndSuccess ==
    [][ /\ \A m \in DOMAIN tasks : tasks[m].can_trade
        /\ open_positions' # open_positions
              => \E m \in DOMAIN tasks :
                    /\ tasks[m].pc = "placed"
                    /\ tasks[m].success
                    /\ tasks[m].can_trade
                    /\ m \notin DOMAIN tasks'
                    /\ open_positions' =
                          record_position(open_positions, m, tasks[m].bet_amount,
                                          tasks[m].side, tasks[m].current_prob)
        /\ \A m \in DOMAIN tasks :
              (tasks[m].pc = "placed" /\ ~tasks[m].success /\ m \notin DOMAIN tasks')
                 => open_positions' = open_positions
      ]_vars

C5_Witness ==
    /\ open_positions # EmptyLedger
    /\ \E m \in DOMAIN tasks : tasks[m].pc = "placed" /\ ~tasks[m].success

\* the denial conditions of C6, read off the ledger and the arguments
HasPosition == call.market_id \in DOMAIN open_positions

OverPositionSize == call.amount > max_position_size

OverPortfolioRisk ==
    /\ call.balance > 0
    /\ (total_at_risk(open_positions) + call.amount) * 100
           > max_portfolio_risk * call.balance

C6_Outcome(denied) ==
    call.op = "can_trade" =>
        /\ call.allowed <=> ~denied
        /\ call.allowed => call.reason = None
        /\ ~call.allowed => call.reason \notin {None, ""}
        /\ call.balance <= 0 => call.reason # "Exceeds portfolio risk limit"

\* C6 as stated: can_trade allows, with no reason, iff no position is open
\* for the market, the amount is within max_position_size, the portfolio
\* ratio (balance > 0 only) is within max_portfolio_risk and the count of
\* open positions does not equal max_markets_open; otherwise it denies with
\* a reason.
C6_DeniesAtEqualCount ==
    C6_Outcome(HasPosition \/ OverPositionSize \/ OverPortfolioRisk
               \/ Count = max_markets_open)

\* C6 amended: the same, with the count condition "is at least
\* max_markets_open".
C6_DeniesAtOrAboveCount ==
    C6_Outcome(HasPosition \/ OverPositionSize \/ OverPortfolioRisk
               \/ Count >= max_markets_open)

C6_Witness ==
    /\ call.op = "can_trade"
    /\ ~call.allowed
    /\ call.reason = "At max open positions"
    /\ Count > max_markets_open

Headroom == (call.balance * max_portfolio_risk) \div 100 - total_at_risk(open_positions)

\* C7 as stated: adjust_bet_size returns max(0, min(proposed,
\* max_position_size, balance * max_portfolio_risk - sum of open amounts))
\* for every proposed amount, balance and ledger state.
C7_ClampAtEveryBalance ==
    call.op = "adjust_bet_size" =>
        call.result = Max(0, Min(Min(call.amount, max_position_size), Headroom))

\* C7 amended: that value for every balance > 0; for a balance <= 0 the
\* headroom cap is skipped and the result is max(0, min(proposed,
\* max_position_size)).  One open position of 80 and balance 500 give 70
\* for a proposal of 90.
C7_ClampAtPositiveBalance ==
    call.op = "adjust_bet_size" =>
        /\ call.balance > 0 =>
              call.result = Max(0, Min(Min(call.amount, max_position_size), Headroom))
        /\ call.balance <= 0 =>
              call.result = Max(0, Min(call.amount, max_position_size))
        /\ (call.amount = 90 /\ call.balance = 500 /\ Count = 1
               /\ total_at_risk(open_positions) = 80) => call.result = 70

C7_Witness ==
    /\ call.op = "adjust_bet_size"
    /\ call.amount = 90
    /\ call.balance = 500
    /\ Count = 1
    /\ total_at_risk(open_positions) = 80
    /\ call.result = 70

SameElsewhere(market_id) ==
    \A m \in Markets \ {market_id} :
        /\ m \in DOMAIN open_positions' <=> m \in DOMAIN open_positions
        /\ m \in DOMAIN open_positions => open_positions'[m] = open_positions[m]

\* C8: can_trade, adjust_bet_size and get_portfolio_summary leave the open
\* positions unchanged; record_position(m) touches only m and is the only
\* call that adds an entry; remove_position(m) deletes only m, is the only
\* call that deletes an entry, and changes nothing and raises nothing when
\* m is absent.
C8_FrameOfEachCall ==
    [][ /\ call'.op \in {"can_trade", "adjust_bet_size", "get_portfolio_summary"}
              => open_positions' = open_positions
        /\ call'.op = "record_position"
              => /\ SameElsewhere(call'.market_id)
                 /\ call'.market_id \in DOMAIN open_positions'
        /\ call'.op = "remove_position"
              => /\ SameElsewhere(call'.market_id)
                 /\ call'.market_id \notin DOMAIN open_positions'
                 /\ call'.market_id \notin DOMAIN open_positions
                       => open_positions' = open_positions
                 /\ ~call'.raised
        /\ DOMAIN open_positions' \ DOMAIN open_positions # {}
              => call'.op = "record_position"
        /\ DOMAIN open_positions \ DOMAIN open_positions' # {}
              => call'.op = "remove_position"
      ]_vars

C8_Witness ==
    /\ call.op = "remove_position"
    /\ call.market_id \notin DOMAIN open_positions
    /\ Count = 2

\* C9: record_position(m, a, s, p) on a ledger that holds a position for m
\* replaces that entry with (a, s, p), leaves the number of open positions
\* unchanged and leaves every other market's position unchanged.
C9_RecordReplaces ==
    [][ (call'.op = "record_position" /\ call'.market_id \in DOMAIN open_positions)
           => /\ open_positions'[call'.market_id] =
                    Position(call'.amount, call'.side, call'.market_prob)
              /\ Cardinality(DOMAIN open_positions') = Count
              /\ SameElsewhere(call'.market_id)
      ]_vars

C9_Witness ==
    /\ call.op = "record_position"
    /\ call.replaced
    /\ Count = 2
    /\ open_positions[call.market_id] =
          Position(call.amount, call.side, call.market_prob)

\* C10: can_trade, adjust_bet_size and record_position called with a
\* negative amount, and record_position called with a side other than YES
\* or NO, end in an explicit error.
C10_MisuseFailsLoudly ==
    ( \/ /\ call.op \in {"can_trade", "adjust_bet_size", "record_position"}
         /\ call.amount < 0
      \/ /\ call.op = "record_position"
         /\ call.side \notin Sides )
    => call.raised

---------------------------------------------------------------------------
(* The strategies: claims C11 to C16, under StrategySpec.                  *)

\* the prediction and the market probability of the latest strategy call
Predicted == call.llm_prediction[1]

Confidence == call.llm_prediction[2]

MarketProbability ==
    IF "probability" \in DOMAIN call.market THEN call.market.probability ELSE 50

Declined == call.result = [should_trade |-> FALSE, bet_amount |-> Rat(0, 1), side |-> "NO"]

\* C11: LLMStrategy does not trade when the prediction is absent, when the
\* confidence is under min_confidence, or when the predicted and the market
\* probability differ by less than 0.05; it then returns (False, 0, NO).
C11_LLMDeclines ==
    ( /\ call.op = "LLMStrategy"
      /\ \/ call.llm_prediction = NoPrediction
         \/ Confidence < min_confidence
         \/ Abs(Predicted - MarketProbability) < min_edge )
    => Declined

\* a confident enough prediction is one step under the threshold away from
\* a trade: confidence 0.59 on an edge of 0.30 is declined
C11_Witness ==
    /\ call.op = "LLMStrategy"
    /\ call.llm_prediction # NoPrediction
    /\ Confidence = min_confidence - 1
    /\ Abs(Predicted - MarketProbability) >= min_edge
    /\ Declined

\* C12: when LLMStrategy trades, the side is YES exactly when the predicted
\* probability is above the market probability and NO otherwise, the amount
\* is min(max_bet, edge * confidence * 100) and so at most max_bet; market
\* 0.35 with prediction (0.65, 0.75) gives (True, 22.5, YES).
C12_LLMSideAndAmount ==
    (call.op = "LLMStrategy" /\ call.result.should_trade) =>
        LET edge   == Abs(Predicted - MarketProbability)
            amount == call.result.bet_amount
        IN  /\ call.result.side = "YES" <=> Predicted > MarketProbability
            /\ call.result.side = "NO" <=> Predicted <= MarketProbability
            /\ amount.num * 100 =
                   Min(max_bet_amount * 100, edge * Confidence) * amount.den
            /\ amount.num <= max_bet_amount * amount.den
            /\ (MarketProbability = 35 /\ call.llm_prediction = <<65, 75>>) =>
                   call.result = [should_trade |-> TRUE,
                                  bet_amount |-> [num |-> 45, den |-> 2],
                                  side |-> "YES"]

\* the scenario of the claim was called, and the strategy traded
C12_Witness ==
    /\ call.op = "LLMStrategy"
    /\ MarketProbability = 35
    /\ call.llm_prediction = <<65, 75>>
    /\ call.result.should_trade

\* the favoured side's edge and market price q of a Kelly call, in percent
KellyEdge ==
    IF Predicted > MarketProbability THEN Predicted - MarketProbability
    ELSE MarketProbability - Predicted

KellyQ ==
    IF Predicted > MarketProbability THEN MarketProbability
    ELSE 100 - MarketProbability

\* C13: KellyStrategy recommends YES only when predicted > market, NO only
\* when predicted < market, and declines when the prediction is absent or
\* equals the market probability.
C13_KellyPositiveEdge ==
    call.op = "KellyStrategy" =>
        /\ (call.result.should_trade /\ call.result.side = "YES") =>
               Predicted > MarketProbability
        /\ (call.result.should_trade /\ call.result.side = "NO") =>
               Predicted < MarketProbability
        /\ call.llm_prediction = NoPrediction => Declined
        /\ (call.llm_prediction # NoPrediction /\ Predicted = MarketProbability) =>
               Declined

\* a NO recommendation, made with the prediction under the market
C13_Witness ==
    /\ call.op = "KellyStrategy"
    /\ call.result.should_trade
    /\ call.result.side = "NO"
    /\ Predicted < MarketProbability

\* C14: when KellyStrategy trades, the amount is
\* min(max_bet, (edge / (1 - q)) * kelly_fraction * 100) and lies in
\* [1.0, max_bet]; it declines when that amount is under 1.0, and at q = 1
\* the fraction is 0, so it declines instead of dividing by zero.
C14_KellyAmount ==
    (call.op = "KellyStrategy" /\ call.llm_prediction # NoPrediction) =>
        LET amount == call.result.bet_amount
            \* (edge / (1 - q)) * kelly_fraction * 100 is raw_n / raw_d
            raw_n  == KellyEdge * kelly_fraction
            raw_d  == 100 - KellyQ
            capped == raw_n > max_bet_amount * raw_d
        IN  /\ call.result.should_trade =>
                /\ KellyQ < 100
                /\ IF capped THEN amount = [num |-> max_bet_amount, den |-> 1]
                   ELSE amount.num * raw_d = raw_n * amount.den
                /\ amount.num >= min_bet * amount.den
                /\ amount.num <= max_bet_amount * amount.den
            /\ (KellyQ < 100 /\ raw_n < min_bet * raw_d) => Declined
            /\ KellyQ = 100 => Declined

\* a trade whose amount is the scaled Kelly fraction itself, under the cap
C14_Witness ==
    /\ call.op = "KellyStrategy"
    /\ call.result.should_trade
    /\ RatLess(call.result.bet_amount, Rat(max_bet_amount, 1))
    /\ call.result.bet_amount.den > 1

\* a positive edge whose amount is under 1.0: declined
C14_WitnessFloor ==
    /\ call.op = "KellyStrategy"
    /\ call.llm_prediction # NoPrediction
    /\ KellyEdge > 0
    /\ KellyQ < 100
    /\ KellyEdge * kelly_fraction < min_bet * (100 - KellyQ)
    /\ Declined

\* q = 1 with a positive edge: declined
C14_WitnessQOne ==
    /\ call.op = "KellyStrategy"
    /\ call.llm_prediction # NoPrediction
    /\ KellyQ = 100
    /\ KellyEdge > 0
    /\ Declined

\* what the i-th sub-strategy of the latest composite call returned, and
\* the weight it was given
SubResult(i) == should_trade(call.strategies[i], call.market, call.llm_prediction)

SubWeight(i) ==
    IF call.weights = NoWeights THEN Fl(Rat(1, Len(call.strategies)))
    ELSE call.weights[i]

\* the float sum of weight * amount over the first n sub-strategies that
\* trade on the side
RECURSIVE SideTotal(_, _)
SideTotal(side, n) ==
    IF n = 0 THEN Rat(0, 1)
    ELSE IF SubResult(n).should_trade /\ SubResult(n).side = side
    THEN Fl(RatAdd(SideTotal(side, n - 1),
                   Fl(RatMul(SubResult(n).bet_amount, SubWeight(n)))))
    ELSE SideTotal(side, n - 1)

YesTotal == SideTotal("YES", Len(call.strategies))

NoTotal == SideTotal("NO", Len(call.strategies))

\* C15: CompositeStrategy adds weight * amount of the trading
\* sub-strategies per side; it recommends YES with the YES total exactly
\* when the YES total is the larger, NO with the NO total exactly when the
\* NO total is the larger, and declines on a tie and when nobody trades.
C15_CompositeDecision ==
    call.op = "CompositeStrategy" =>
        /\ RatLess(NoTotal, YesTotal) <=>
               call.result = [should_trade |-> TRUE, bet_amount |-> YesTotal,
                              side |-> "YES"]
        /\ RatLess(YesTotal, NoTotal) <=>
               call.result = [should_trade |-> TRUE, bet_amount |-> NoTotal,
                              side |-> "NO"]
        /\ YesTotal = NoTotal <=> Declined

\* both sides have backers and one side wins, with its own total
C15_Witness ==
    /\ call.op = "CompositeStrategy"
    /\ RatLess(Rat(0, 1), NoTotal)
    /\ RatLess(NoTotal, YesTotal)
    /\ call.result.should_trade
    /\ call.result.bet_amount = YesTotal

\* both sides have backers and tie: declined
C15_WitnessTie ==
    /\ call.op = "CompositeStrategy"
    /\ RatLess(Rat(0, 1), NoTotal)
    /\ YesTotal = NoTotal
    /\ Declined

Reorderings(n) == {f \in [1..n -> 1..n] : \A i, j \in 1..n : f[i] = f[j] => i = j}

Permuted(s, f) == [i \in 1..Len(s) |-> s[f[i]]]

\* C16: permuting the sub-strategy list and the weight list together
\* leaves what should_trade returns unchanged.
C16_PermutationInvariant ==
    call.op = "CompositeStrategy" =>
        \A f \in Reorderings(Len(call.strategies)) :
            CompositeStrategy_should_trade(
                Permuted(call.strategies, f),
                IF call.weights = NoWeights THEN NoWeights
                ELSE Permuted(call.weights, f),
                call.market, call.llm_prediction) = call.result

---------------------------------------------------------------------------
(* The market evaluation: claims C17 and C18, under EvaluatorSpec.         *)

InUnit(x) == x.num >= 0 /\ x.num <= x.den

GivenLiquidity ==
    IF "totalLiquidity" \in DOMAIN call.market THEN call.market.totalLiquidity ELSE 0

GivenVolume ==
    IF "volume24Hours" \in DOMAIN call.market THEN call.market.volume24Hours ELSE 0

\* C17: for a market with liquidity >= 0 and 24h volume >= 0 (zero
\* liquidity, missing and past close times included) evaluate_market
\* returns without raising, its four scores are in [0,1], and its overall
\* score is in [0,1] and is 0.30 * liquidity + 0.25 * time +
\* 0.25 * volatility + 0.20 * volume.
C17_ScoresInRange ==
    (call.op = "evaluate_market" /\ GivenLiquidity >= 0 /\ GivenVolume >= 0) =>
        /\ ~call.result.raised
        /\ InUnit(call.result.liquidity_score)
        /\ InUnit(call.result.time_score)
        /\ InUnit(call.result.volatility_score)
        /\ InUnit(call.result.volume_score)
        /\ InUnit(call.result.overall_score)
        /\ call.result.overall_score =
               RatAdd(RatAdd(RatMul(Rat(3, 10), call.result.liquidity_score),
                             RatMul(Rat(1, 5), call.result.volume_score)),
                      RatMul(Rat(1, 4), RatAdd(call.result.time_score,
                                               call.result.volatility_score)))

\* a market with zero liquidity, some volume and a past close time
C17_Witness ==
    /\ call.op = "evaluate_market"
    /\ "totalLiquidity" \in DOMAIN call.market
    /\ call.market.totalLiquidity = 0
    /\ GivenVolume > 0
    /\ "closeTime" \in DOMAIN call.market
    /\ call.market.closeTime = call.now - 1
    /\ ~call.result.raised

\* the remaining time of the latest evaluation, and its score by the bands
RemainingTime == call.market.closeTime - call.now

BandScore ==
    IF RemainingTime < 0 THEN Rat(0, 1)
    ELSE IF RemainingTime < 86400 THEN Rat(3, 10)
    ELSE IF RemainingTime < 7 * 86400 THEN Rat(1, 1)
    ELSE IF RemainingTime < 30 * 86400 THEN Rat(7, 10)
    ELSE Rat(4, 10)

---------------------------------------------------------------------------
(* The parser: claims C19 and C20, under ParserSpec.                       *)

\* C19: for every raw text the parser returns a triple whose probability
\* and confidence are both in [0,1], on the path that decodes an object
\* and on the path that scans for labels alike, and it never raises.
C19_ParserInRange ==
    call.op = "_parse_response" =>
        /\ call.result.probability >= 0
        /\ call.result.probability <= 100
        /\ call.result.confidence >= 0
        /\ call.result.confidence <= 100

\* what the text of the latest parser call holds: an object that decodes,
\* and the labelled numbers that convert
ObjectFound == object_search(call.response, 1) # << >>

ObjectDecodes ==
    ObjectFound /\ ~json_loads(object_search(call.response, 1)).raised

Decoded == json_loads(object_search(call.response, 1)).value

Labelled(label) == label_search(call.response, label, 1)

ScanFinds(label) == Labelled(label) # << >>

Converts(label) == ScanFinds(label) => ~float(Labelled(label)[1]).raised

Scanned(label) ==
    IF ScanFinds(label) THEN float(Labelled(label)[1]).value ELSE 50

\* C20: (1) an object that is found and decodes gives its clamped fields;
\* (2) with no object, or with an object that does not decode, the text is
\* scanned for labelled numbers, a missing one is 0.5 and the rationale is
\* the first 200 characters; (3) when the scan finds neither label the
\* result is probability 0.5 and confidence 0.0, with a rationale that
\* differs from the text.
C20_ThreeStageFallback ==
    call.op = "_parse_response" =>
        IF ObjectDecodes
        THEN /\ call.result.probability =
                    Max(0, Min(100, IF "probability" \in DOMAIN Decoded
                                    THEN Decoded.probability ELSE 50))
             /\ call.result.confidence =
                    Max(0, Min(100, IF "confidence" \in DOMAIN Decoded
                                    THEN Decoded.confidence ELSE 50))
        ELSE IF ~ScanFinds("probability") /\ ~ScanFinds("confidence")
        THEN /\ call.result.probability = 50
             /\ call.result.confidence = 0
             /\ call.result.reasoning # first_200(call.response, 200)
        ELSE (Converts("probability") /\ Converts("confidence")) =>
                 /\ call.result.probability = Scanned("probability")
                 /\ call.result.confidence = Scanned("confidence")
                 /\ call.result.reasoning = first_200(call.response, 200)

---------------------------------------------------------------------------
(* process_market with the bot's own strategy.                             *)

Decided == call.op = "process_market"

Placed == Decided /\ call.result.placed

\* C21: the bot never places a bet when the prediction's confidence is
\* below min_confidence, the confidence-0 fallback prediction included.
C21_NoBetBelowMinConfidence ==
    (/\ Decided
     /\ call.llm_prediction # NoPrediction
     /\ call.llm_prediction[2] < min_confidence)
        => ~call.result.placed

\* C22: the amount passed to place_bet, and recorded when place_bet
\* succeeds, is at most max_bet_amount and at most max_position_size.
C22_BetWithinCeilings ==
    Placed =>
        /\ ~RatLess(Rat(max_bet_amount, 1), call.result.bet_amount)
        /\ ~RatLess(Rat(max_position_size, 1), call.result.bet_amount)

\* both strategies at their ceiling: the bet is exactly max_bet_amount
C22_Witness ==
    /\ Placed
    /\ call.result.recorded
    /\ call.result.bet_amount = Rat(max_bet_amount, 1)

\* C28: without a forecast client the prediction passed to the strategy is
\* None and the composite of LLMStrategy and KellyStrategy declines, so
\* process_market calls neither place_bet nor record_position.
C28_NoClientNoBet ==
    (Decided /\ ~call.has_client) =>
        /\ call.llm_prediction = NoPrediction
        /\ ~call.result.placed
        /\ ~call.result.recorded

\* an open, position-less market on a funded account with room in the
\* ledger: only the strategy stands between the market and a bet
C28_Witness ==
    /\ Decided
    /\ ~call.has_client
    /\ ~call.is_resolved
    /\ call.positions = EmptyLedger
    /\ call.balance > 0
    /\ call.analysis = <<65, 75>>
    /\ ~call.result.placed

\* what the bot's strategy recommended in the call
Recommended ==
    CompositeStrategy_should_trade(bot_strategies, NoWeights, call.market,
                                   call.llm_prediction)

\* the whole amounts at risk after the bet, rounded up
AtRiskAfter == total_at_risk(call.positions) + Ceil(call.result.bet_amount)

\* C27: the bot places no bet in a cycle whose balance is not positive,
\* a failed balance fetch reported as 0 included.
C27_NoBetWithoutBalance ==
    (Decided /\ call.balance <= 0) => ~call.result.placed

\* C27, amended: with a positive balance a bet is placed only within the
\* portfolio budget; with a balance that is not positive the budget is
\* not enforced and the bet placed is the strategy's amount unchanged, on
\* a market without a position, below the position count limit.
C27_BudgetOnlyAtPositiveBalance ==
    Placed =>
        /\ call.balance > 0 =>
              AtRiskAfter * 100 <= max_portfolio_risk * call.balance
        /\ call.balance <= 0 =>
              /\ call.result.bet_amount = Recommended.bet_amount
              /\ Ceil(call.result.bet_amount) <= max_position_size
        /\ call.market.id \notin DOMAIN call.positions
        /\ Cardinality(DOMAIN call.positions) < max_markets_open

\* a bet placed and recorded in a cycle whose balance is 0
C27_Witness ==
    /\ Placed
    /\ call.balance = 0
    /\ call.result.recorded
    /\ call.positions # EmptyLedger

---------------------------------------------------------------------------
(* The gate followed by the clamp.                                         *)

\* C26: the clamp is a no-op after a passing gate: if can_trade allows a
\* non-negative amount, adjust_bet_size on the same ledger and balance
\* returns exactly that amount.
C26_ClampNoOpAfterGate ==
    (/\ call.op = "gate_then_clamp"
     /\ ~RatLess(call.amount, Zero)
     /\ call.allowed)
        => call.result = call.amount

---------------------------------------------------------------------------
(* The two strategies of the bot side by side.                             *)

\* what the other class returns on the market and prediction of the call
OtherClass ==
    IF call.op = "LLMStrategy"
    THEN KellyStrategy_should_trade(call.market, call.llm_prediction)
    ELSE LLMStrategy_should_trade(call.market, call.llm_prediction)

BothTrade ==
    /\ call.op \in {"LLMStrategy", "KellyStrategy"}
    /\ call.result.should_trade
    /\ OtherClass.should_trade

BotComposite ==
    /\ call.op = "CompositeStrategy"
    /\ call.strategies = bot_strategies
    /\ call.weights = NoWeights

\* C30: on every market and prediction on which LLMStrategy and
\* KellyStrategy both trade they recommend the same side, so in the
\* composite of the two the YES total and the NO total are never both
\* positive and the opposing-sides tie does not occur.
C30_SameSide ==
    /\ BothTrade => call.result.side = OtherClass.side
    /\ BotComposite =>
           /\ ~(RatLess(Zero, YesTotal) /\ RatLess(Zero, NoTotal))
           /\ Declined => (YesTotal = Zero /\ NoTotal = Zero)

\* both classes trade, for NO
C30_Witness ==
    /\ BothTrade
    /\ call.op = "KellyStrategy"
    /\ call.result.side = "NO"
    /\ OtherClass.side = "NO"

\* the composite of the two with both of them trading for NO
C30_WitnessComposite ==
    /\ BotComposite
    /\ SubResult(1).should_trade
    /\ SubResult(2).should_trade
    /\ RatLess(Zero, NoTotal)
    /\ call.result.side = "NO"

---------------------------------------------------------------------------
(* The bot's entry points.                                                 *)

\* C23: a run_once call on a freshly constructed bot passes every fetched
\* target market through process_market: its for loop ends only when no
\* fetched market is left.
C23_RunOnceProcessesEveryMarket ==
    [][(/\ entry = "run_once"
        /\ bot_pc = "for_loop"
        /\ bot_pc' # "for_loop") => targets = << >>]_vars

Stopped == entry = "run" /\ ~running

\* C24: once stop() was called while run() is executing, no process_market
\* call is started for a further market, no new cycle begins, and run()
\* eventually returns with running = False, given that the pending
\* external call and the sleep complete.
C24_StopEndsRun ==
    /\ [][Stopped => /\ ~(bot_pc = "for_loop" /\ bot_pc' = "for_loop"
                            /\ targets' # targets)
                     /\ DOMAIN tasks' \subseteq DOMAIN tasks
                     /\ cycles' = cycles
                     /\ ~running']_vars
    /\ Stopped ~> (bot_pc = "done" /\ ~running)

\* stop() arrived in the middle of a cycle: a bet is pending and a further
\* market is waiting in the for loop
C24_Witness ==
    /\ Stopped
    /\ bot_pc = "for_loop"
    /\ targets # << >>
    /\ tasks # NoTasks

AtMaxMarketsOpen == Cardinality(DOMAIN open_positions) >= max_markets_open

\* C29: the bot removes no position, so over a run the open positions
\* only grow, each staying as it was recorded, and once max_markets_open
\* positions are open the bot starts no further bet, in this cycle or a
\* later one.
C29_PositionsOnlyGrow ==
    [][/\ DOMAIN open_positions \subseteq DOMAIN open_positions'
       /\ \A m \in DOMAIN open_positions : open_positions'[m] = open_positions[m]
       /\ AtMaxMarketsOpen => /\ DOMAIN tasks' \subseteq DOMAIN tasks
                               /\ AtMaxMarketsOpen']_vars

\* the ledger is full and a later cycle offers a market without a position
C29_Witness ==
    /\ AtMaxMarketsOpen
    /\ cycles = 2
    /\ bot_pc = "for_loop"
    /\ running
    /\ targets # << >>
    /\ Head(targets) \notin DOMAIN open_positions
    /\ balance = 1000

---------------------------------------------------------------------------
(* MarketResolutionTracker.                                                *)

\* the market of the check_resolution call just made is resolved, has a
\* resolution value, and had a pending position
Resolvable ==
    LET m == call'.market
    IN  /\ get(m, "isResolved", FALSE)
        /\ get(m, "resolution", NoResolution) # NoResolution
        /\ m.id \in DOMAIN pending_positions

\* C25: check_resolution returns resolution data exactly for a market that
\* is resolved with a resolution value and has a pending position, and
\* then moves the position from pending_positions to resolved_markets, so
\* that a second call for the market returns None; in every other case it
\* returns None and changes neither map.
C25_CheckResolution ==
    [][call'.op = "check_resolution" =>
         LET m == call'.market.id
         IN  IF Resolvable
             THEN /\ call'.result # NoData
                  /\ call'.result.market_id = m
                  /\ m \notin DOMAIN pending_positions'
                  /\ \A k \in DOMAIN pending_positions \ {m} :
                         /\ k \in DOMAIN pending_positions'
                         /\ pending_positions'[k] = pending_positions[k]
                  /\ DOMAIN resolved_markets' = DOMAIN resolved_markets \cup {m}
                  /\ resolved_markets'[m] = call'.result
                  /\ \A k \in DOMAIN resolved_markets \ {m} :
                         resolved_markets'[k] = resolved_markets[k]
             ELSE /\ call'.result = NoData
                  /\ UNCHANGED tracker_vars]_vars

====
